---- MODULE Spec2Model ----
(***************************************************************************)
(* Model of the conversational memory of workflow/agent.py (class Agent):  *)
(* the per-session message histories, the agent-wide memory statistics,    *)
(* and the operations process_input, save_context_with_stats,              *)
(* get_conversation_summary, update_summary, set_max_token_limit and       *)
(* clear_memory.                                                           *)
(*                                                                         *)
(* Texts are sequences of tokens (a Python string is the concatenation of  *)
(* its tokens, "" is << >>).  Timestamps are ticks of a logical clock.     *)
(***************************************************************************)
EXTENDS Integers, Sequences, FiniteSets, TLC

\* ------------------------------------------------------------- bounds
\* number of clock readings in one run: one per exchange saved by
\* save_context_with_stats and one per summary made by update_summary
MaxClock == 2
\* largest value passed to set_max_token_limit
MaxThreshold == 2

\* ------------------------------------------------- program constants
DefaultBufferSize == 8
DefaultThreshold == 6
\* 'last_summarization': None, and an absent 'last_updated' key
NoTime == 0

DefaultSession == "default_session"
\* the session_id=None default argument
NoSession == "None"
SessionIds == {DefaultSession, "A"}
SessionArgs == SessionIds \cup {NoSession}

UserTexts == {<<"hi">>}

\* AgentExecutor's output when max_iterations is reached
StopText == <<"Agent stopped due to iteration limit or time limit.">>
ParseFallbackText == <<"I encountered a parsing error but was able to extract some content. Please try rephrasing your question.">>

\* values a caller may pass to set_max_token_limit (no validation in the code)
ThresholdInputs == (0 - 1) .. MaxThreshold

HumanMessage(text) == [role |-> "human", content |-> text]
AIMessage(text) == [role |-> "ai", content |-> text]

\* ------------------------------------------------ executor outcomes
\* The tools the agent is built with (Agent.__init__, self.tools) are named
\* "weather", "time" and "city_facts"; the names tested by process_input are
\* "WeatherTool", "TimeTool" and "CityFactsTool".  An observation is a dict
\* with the tool's fields ("dict"), a dict with an "error" key ("error"), or
\* a string ("str", e.g. the executor's "... is not a valid tool" text).
ToolNames == {"weather", "time", "city_facts", "WeatherTool"}
ObsKinds == {"dict", "error", "str"}
Step(tool, obs) == [tool |-> tool, tool_input |-> "Tokyo", obs |-> obs]
StepSeqs ==
    { << >>,
      << Step("weather", "dict") >>,
      << Step("city_facts", "dict"), Step("time", "error") >>,
      << Step("WeatherTool", "str") >> }

\* str(e) of an exception raised by the executor: which of the echo patterns
\* of process_input it matches ("none": no pattern), and the text between the
\* backticks.
ErrorContents ==
    { <<"r">>,
      <<"<think>", "t", "</think>", "r">>,
      <<"<think>", "t", "</think>">> }
Errors ==
    [pattern : {"parse", "opf"}, content : ErrorContents]
      \cup {[pattern |-> "none", content |-> << >>]}

ExecOutcomes ==
    [kind : {"ok"}, output : {<<"ans">>, StopText}, steps : StepSeqs,
     err : {[pattern |-> "none", content |-> << >>]}]
      \cup [kind : {"raise"}, output : {<< >>}, steps : {<< >>}, err : Errors]

\* The executor's steps in full: a step names either one of the tools the
\* agent is built with, whose observation is the dict the tool returned, or
\* a name that is none of them, whose observation is the executor's
\* "... is not a valid tool" string and for which no tool was run.
ConfiguredTools == {"weather", "time", "city_facts"}
ExecutorSteps ==
    { Step(t, o) : t \in ConfiguredTools, o \in {"dict", "error"} }
      \cup { Step("WeatherTool", "str") }
TurnStepSeqs ==
    { << >> } \cup { << st >> : st \in ExecutorSteps }
      \cup { << Step("city_facts", "dict"), Step("weather", "dict"),
                Step("time", "dict") >>,
             << Step("weather", "error"), Step("time", "error") >> }

\* final answers of the executor, one of them with a reasoning block
TurnOutputs == {<<"ans">>, StopText, <<"<think>", "t", "</think>", "r">>}

TurnOutcomes ==
    [kind : {"ok"}, output : TurnOutputs, steps : TurnStepSeqs,
     err : {[pattern |-> "none", content |-> << >>]}]
      \cup [kind : {"raise"}, output : {<< >>}, steps : {<< >>}, err : Errors]

VARIABLES
    buffer_size,              \* self.buffer_size
    summarization_threshold,  \* self.summarization_threshold
    memory_stats,             \* self.memory_stats
    session_histories,        \* self.session_histories: session id -> messages
    now,                      \* logical clock read by datetime.datetime.now()
    turns,                    \* per session id: turns answered since it was
                              \* created or last cleared (history variable)
    last,                     \* the last call made and what it returned
    \* the StreamingHandler of one streamed request
    current_section,          \* self.current_section
    function_calls,           \* self.function_calls
    thinking_buffer,          \* self.thinking_buffer
    response_buffer,          \* self.response_buffer
    queue,                    \* the events put on self.queue, oldest first
    phase,                    \* where the run that calls the handler is
    callbacks,                \* the callbacks delivered (history variable)
    requests,                 \* per HTTP request: its thread, loop, consumer
    queues,                   \* the queue.Queue objects made by the requests
    threads                   \* per thread that runs a turn: where it is

\* the agent
avars == <<buffer_size, summarization_threshold, memory_stats,
           session_histories, now, turns, last>>
\* the streaming handler
hvars == <<current_section, function_calls, thinking_buffer, response_buffer,
           queue, phase, callbacks>>

\* the streaming endpoints of app.py
fvars == <<requests, queues>>
\* the threads that run turns on the one Agent
cvars == <<threads>>

vars == <<buffer_size, summarization_threshold, memory_stats,
          session_histories, now, turns, last,
          current_section, function_calls, thinking_buffer, response_buffer,
          queue, phase, callbacks, requests, queues, threads>>

current_session_id == DefaultSession

\* ----------------------------------------------------------- helpers
\* the dict literal of Agent.__init__ and of clear_memory
FreshStats(bs, thr) ==
    [total_messages |-> 0,
     summarizations_count |-> 0,
     buffer_size |-> bs,
     summarization_threshold |-> thr,
     last_summarization |-> NoTime,
     last_updated |-> NoTime]

\* session_id = None resolves to self.current_session_id
Resolve(sid) == IF sid = NoSession THEN current_session_id ELSE sid

\* get_session_history: the histories after the lookup (the session is
\* created when absent); the history returned is the result at sid.
get_session_history(h, sid) ==
    IF sid \in DOMAIN h THEN h
    ELSE [s \in DOMAIN h \cup {sid} |-> IF s \in DOMAIN h THEN h[s] ELSE << >>]

\* a save that keeps only the exchange just made
AddExchangeReplacing(h, sid, u, a) ==
    [h EXCEPT ![sid] = << HumanMessage(u), AIMessage(a) >>]

\* a save that appends the answer before the question
AddExchangeAnswerFirst(h, sid, u, a) ==
    [h EXCEPT ![sid] = @ \o << AIMessage(a), HumanMessage(u) >>]

\* history.add_user_message(u); history.add_ai_message(a)
AddExchange(h, sid, u, a) ==
    [h EXCEPT ![sid] = @ \o << HumanMessage(u), AIMessage(a) >>]


\* RunnableWithMessageHistory (self.agent_with_history) around the executor:
\* when the executor returns, the wrapper itself appends the input as a
\* HumanMessage and the value under "output" as an AIMessage to the history
\* that get_session_history gave it.  Nothing is appended when the executor
\* raises.
agent_with_history_record(h, sid, u, out) == AddExchange(h, sid, u, out)

\* ------------------------------------------- save_context_with_stats
\* lines 113-118: the histories after the save
SaveHistories(h, sid, u, a) ==
    AddExchange(get_session_history(h, sid), sid, u, a)

\* the summarization check of lines 125-126
SummarizationTriggered(n, thr) == n > thr * 2

\* lines 120-128: the statistics after the save; n is len(history.messages)
\* after the two appends, t the clock reading
SaveStats(stats, n, thr, t) ==
    LET counted == [stats EXCEPT !.total_messages = @ + 2,
                                 !.last_updated = t]
    IN  IF SummarizationTriggered(n, thr)
        THEN [counted EXCEPT !.summarizations_count = @ + 1,
                             !.last_summarization = t]
        ELSE counted

\* ------------------------------------------------------ process_input
\* the first of the echo patterns that matches str(e): the text between the
\* backticks, or << >> when none matches (extracted_content = None)
ExtractedContent(err) ==
    IF err.pattern = "none" THEN << >> ELSE err.content

\* index of the first token equal to tok at or after position i, 0 if none
RECURSIVE FirstAt(_, _, _)
FirstAt(c, tok, i) ==
    IF i > Len(c) THEN 0
    ELSE IF c[i] = tok THEN i
    ELSE FirstAt(c, tok, i + 1)

\* re.search(r'<think>([\s\S]*?)</think>', content): <<open, close>> indexes
\* of the first block, <<0, 0>> when there is none
ThinkBlock(c) ==
    LET open == FirstAt(c, "<think>", 1)
        close == IF open = 0 THEN 0 ELSE FirstAt(c, "</think>", open + 1)
    IN  IF close = 0 THEN <<0, 0>> ELSE <<open, close>>

\* re.sub(think_pattern, '', content): every block removed
RECURSIVE RemoveThink(_)
RemoveThink(c) ==
    LET b == ThinkBlock(c)
    IN  IF b[1] = 0 THEN c
        ELSE SubSeq(c, 1, b[1] - 1) \o RemoveThink(SubSeq(c, b[2] + 1, Len(c)))

Whitespace == {" ", "\n"}

\* str.strip()
RECURSIVE LStrip(_)
LStrip(c) ==
    IF c # << >> /\ Head(c) \in Whitespace THEN LStrip(Tail(c)) ELSE c

RECURSIVE RStrip(_)
RStrip(c) ==
    IF c # << >> /\ c[Len(c)] \in Whitespace
    THEN RStrip(SubSeq(c, 1, Len(c) - 1)) ELSE c

Strip(c) == RStrip(LStrip(c))

\* re.search of a tag pattern (<think>, <thinking>): <<open, close>> indexes
\* of the first block, <<0, 0>> when there is none
TagBlock(c, o, cl) ==
    LET open == FirstAt(c, o, 1)
        close == IF open = 0 THEN 0 ELSE FirstAt(c, cl, open + 1)
    IN  IF close = 0 THEN <<0, 0>> ELSE <<open, close>>

\* re.sub of a tag pattern: every block removed
RECURSIVE RemoveTag(_, _, _)
RemoveTag(c, o, cl) ==
    LET b == TagBlock(c, o, cl)
    IN  IF b[1] = 0 THEN c
        ELSE SubSeq(c, 1, b[1] - 1)
               \o RemoveTag(SubSeq(c, b[2] + 1, Len(c)), o, cl)

\* r'Thought:([\s\S]*?)(?=Action:|Final Answer:|$)': the index at which a
\* thought that is open at i ends (the first position where the lookahead
\* holds)
RECURSIVE ThoughtStop(_, _)
ThoughtStop(c, i) ==
    IF i > Len(c) THEN i
    ELSE IF c[i] \in {"Action:", "Final Answer:"} THEN i
    ELSE IF i = Len(c) /\ c[i] = "\n" THEN i
    ELSE ThoughtStop(c, i + 1)

\* re.sub of the Thought pattern
RECURSIVE RemoveThought(_)
RemoveThought(c) ==
    LET t == FirstAt(c, "Thought:", 1)
    IN  IF t = 0 THEN c
        ELSE SubSeq(c, 1, t - 1)
               \o RemoveThought(SubSeq(c, ThoughtStop(c, t + 1), Len(c)))

\* a recovery that returns the cleaned content as it is, empty or not
RecoveredResponseNoFallback(c) ==
    LET b1 == TagBlock(c, "<think>", "</think>")
        b2 == TagBlock(c, "<thinking>", "</thinking>")
        t == FirstAt(c, "Thought:", 1)
    IN  IF b1[1] # 0 THEN Strip(RemoveTag(c, "<think>", "</think>"))
        ELSE IF b2[1] # 0
        THEN Strip(RemoveTag(c, "<thinking>", "</thinking>"))
        ELSE IF t # 0 THEN Strip(RemoveThought(c))
        ELSE Strip(c)

\* lines 249-270: the response recovered from the extracted content: the
\* first of the three thinking patterns that matches is removed, the rest is
\* stripped, and an empty rest is replaced by the fixed text
RecoveredResponse(c) ==
    LET b1 == TagBlock(c, "<think>", "</think>")
        b2 == TagBlock(c, "<thinking>", "</thinking>")
        t == FirstAt(c, "Thought:", 1)
        response ==
            IF b1[1] # 0 THEN Strip(RemoveTag(c, "<think>", "</think>"))
            ELSE IF b2[1] # 0
            THEN Strip(RemoveTag(c, "<thinking>", "</thinking>"))
            ELSE IF t # 0 THEN Strip(RemoveThought(c))
            ELSE Strip(c)
    IN  IF response = << >> THEN ParseFallbackText ELSE response

\* lines 249-265: the thinking recovered from the extracted content
RecoveredThinking(c) ==
    LET b == ThinkBlock(c)
    IN  IF b[1] = 0 THEN << >> ELSE SubSeq(c, b[1] + 1, b[2] - 1)

IsDict(obs) == obs \in {"dict", "error"}

\* lines 166-183: the three texts collected from the intermediate steps
RECURSIVE Collect(_, _)
Collect(steps, acc) ==
    IF steps = << >> THEN acc
    ELSE LET st == Head(steps)
             good == st.obs = "dict"
             nxt ==
               IF st.tool = "CityFactsTool" /\ IsDict(st.obs)
               THEN [acc EXCEPT !.city_facts =
                        IF good THEN <<"facts summary">> ELSE << >>]
               ELSE IF st.tool = "WeatherTool" /\ IsDict(st.obs)
               THEN [acc EXCEPT !.weather_info =
                        IF good
                        THEN <<"Currently ", "22C", " and ", "clear", ". ",
                               "Humidity is ", "40%", " with wind speed of ",
                               "5 km/h", ".">>
                        ELSE <<"Currently ", " and ", ". ",
                               "Humidity is ", " with wind speed of ", ".">>]
               ELSE IF st.tool = "TimeTool" /\ IsDict(st.obs)
               THEN [acc EXCEPT !.time_info =
                        IF good
                        THEN <<"The local time is ", "12:00", " (", "JST", ").">>
                        ELSE <<"The local time is ", " (", ").">>]
               ELSE acc
         IN  Collect(Tail(steps), nxt)

\* lines 161-187: the response returned for an executor result
ResponseOf(output, steps) ==
    IF output = StopText
    THEN LET got == Collect(steps, [city_facts |-> << >>,
                                    weather_info |-> << >>,
                                    time_info |-> << >>])
         IN  IF got.city_facts # << >> \/ got.weather_info # << >>
                \/ got.time_info # << >>
             THEN got.city_facts \o <<"\n\n">> \o got.weather_info
                    \o <<"\n\n">> \o got.time_info
             ELSE output
    ELSE output

\* lines 202-221: one function call per step whose tool is one of the three
\* names listed there
RECURSIVE FunctionCalls(_)
FunctionCalls(steps) ==
    IF steps = << >> THEN << >>
    ELSE (IF Head(steps).tool \in {"WeatherTool", "TimeTool", "CityFactsTool"}
          THEN << [tool |-> Head(steps).tool,
                   parameters |-> [city |-> Head(steps).tool_input]] >>
          ELSE << >>) \o FunctionCalls(Tail(steps))


\* ------------------------------------------- get_conversation_summary
\* lines 319-322
SummaryOf(msgs, thr) ==
    IF Len(msgs) > thr
    THEN <<"Conversation with ", Len(msgs) \div 2,
           " exchanges covering various topics.">>
    ELSE << >>

\* a read that writes its two extra keys into self.memory_stats itself
\* (current_stats = self.memory_stats, the copy forgotten)
StatsAfterReadNoCopy(stats, n, has) ==
    ("current_buffer_count" :> n) @@ ("has_summary" :> has) @@ stats

\* line 331: current_stats is a copy, so self.memory_stats is what it was
StatsAfterRead(stats, n, has) == stats

\* lines 331-333: the stats of the returned dict
CurrentStats(stats, n, has) ==
    [total_messages |-> stats.total_messages,
     summarizations_count |-> stats.summarizations_count,
     buffer_size |-> stats.buffer_size,
     summarization_threshold |-> stats.summarization_threshold,
     last_summarization |-> stats.last_summarization,
     last_updated |-> stats.last_updated,
     current_buffer_count |-> n,
     has_summary |-> has]

\* lines 312-342: the dict returned for session argument sid
ReadResult(h, stats, thr, sid) ==
    LET msgs == get_session_history(h, Resolve(sid))[Resolve(sid)]
        summary == SummaryOf(msgs, thr)
    IN  [summary |-> summary,
         recent_messages |-> msgs,
         stats |-> CurrentStats(stats, Len(msgs), summary # << >>)]

\* ------------------------------------------------------ update_summary
NoSummaryNeeded == <<"No summary needed yet - conversation is still short.">>

\* lines 367-378: the text returned
UpdatedSummary(msgs, thr) ==
    IF Len(msgs) > thr
    THEN <<"Conversation with ", Len(msgs) \div 2,
           " exchanges covering various topics and tool usage.">>
    ELSE NoSummaryNeeded

\* -------------------------------------------------------- clear_memory
\* lines 393-394
ClearHistories(h, sid) ==
    IF sid \in DOMAIN h THEN [h EXCEPT ![sid] = << >>] ELSE h

\* a clear that resets the configuration to the constructor's defaults too
ClearedStatsDefaults(bs, thr) == FreshStats(DefaultBufferSize, DefaultThreshold)

\* lines 397-403
ClearedStats(bs, thr) == FreshStats(bs, thr)


\* ================================================================ state
\* what a call returned when it returns nothing (None)
NoReturn == [kind |-> "none"]

\* the counters of the stats as they were when a call was made
Counters(stats) ==
    [total_messages |-> stats.total_messages,
     summarizations_count |-> stats.summarizations_count]

\* a call: its name, its session_id argument, its other argument, the
\* counters when it was made, and what it returned
Call(op, sid, arg, pre, ret) ==
    [op |-> op, sid |-> sid, arg |-> arg, pre |-> Counters(pre), ret |-> ret]

\* StreamingHandler.__init__
HandlerInit ==
    /\ current_section = "thinking"
    /\ function_calls = << >>
    /\ thinking_buffer = << >>
    /\ response_buffer = << >>
    /\ queue = << >>
    /\ phase = "start"
    /\ callbacks = << >>

\* the HTTP requests that are served at the same time
RequestIds == {"req1", "req2"}

\* a request that was not made yet
NoRequest ==
    [endpoint |-> "none", queue_id |-> "none", handler_id |-> "none",
     thread |-> "none", loop |-> "none", forwarder |-> "none",
     error |-> << >>, consumer |-> "none", received |-> << >>]

\* the application before any streaming request
FacadeInit ==
    /\ requests = [r \in RequestIds |-> NoRequest]
    /\ queues = [r \in RequestIds |-> << >>]

\* the threads that run a turn each on the one Agent at the same time
ThreadIds == {"t1", "t2"}

\* a thread that has not started its turn
NoThread ==
    [pc |-> "idle", sid |-> NoSession, output |-> << >>, loaded |-> 0]

ThreadsInit == threads = [t \in ThreadIds |-> NoThread]

\* Agent.__init__ with its default arguments, the handler that
\* get_streaming_handler(agent) makes for a request, and the application
\* before any request
Init ==
    /\ HandlerInit
    /\ FacadeInit
    /\ ThreadsInit
    /\ buffer_size = DefaultBufferSize
    /\ summarization_threshold = DefaultThreshold
    /\ memory_stats = FreshStats(DefaultBufferSize, DefaultThreshold)
    /\ session_histories = [s \in {current_session_id} |-> << >>]
    /\ now = 0
    /\ turns = [s \in SessionIds |-> 0]
    /\ last = Call("init", NoSession, 0,
                   FreshStats(DefaultBufferSize, DefaultThreshold), NoReturn)

\* lines 141-290: the dict that process_input returns when the executor ends
\* as ex.  steps records the executor's intermediate steps of the turn.
ProcessInputReturn(u, ex) ==
    IF ex.kind = "ok"
    THEN \* lines 141-228
         [kind |-> "result",
          path |-> IF ex.output = StopText THEN "capped" ELSE "completed",
          response |-> ResponseOf(ex.output, ex.steps),
          function_calls |-> FunctionCalls(ex.steps),
          tool_calls |-> Len(ex.steps),
          steps |-> ex.steps]
    ELSE IF ExtractedContent(ex.err) # << >>
    THEN \* lines 247-283
         [kind |-> "result",
          path |-> "recovered",
          response |-> RecoveredResponse(ExtractedContent(ex.err)),
          function_calls |-> << >>,
          tool_calls |-> 0,
          steps |-> << >>]
    ELSE \* lines 285-290
         [kind |-> "result",
          path |-> "failed",
          response |-> <<"Error processing request: ", "error_str">>,
          function_calls |-> << >>,
          tool_calls |-> 0,
          steps |-> << >>]

\* lines 139-283: what process_input(state, session_id) does to the agent
\* when the executor ends as ex
ProcessInputStore(sidArg, u, ex) ==
    LET sid == Resolve(sidArg)
        \* the wrapper looks the history up before the executor runs
        loaded == get_session_history(session_histories, sid)
        t == now + 1
    IN
    /\ now < MaxClock
    /\ UNCHANGED <<buffer_size, summarization_threshold>>
    /\ UNCHANGED hvars
    /\ UNCHANGED fvars
    /\ UNCHANGED cvars
    /\ IF ex.kind = "ok"
       THEN \* lines 141-151: the executor's output is saved as it is
            LET recorded == agent_with_history_record(loaded, sid, u, ex.output)
                saved == SaveHistories(recorded, sid, u, ex.output)
            IN  /\ session_histories' = saved
                /\ memory_stats' = SaveStats(memory_stats, Len(saved[sid]),
                                             summarization_threshold, t)
                /\ now' = t
                /\ turns' = [turns EXCEPT ![sid] = @ + 1]
       ELSE IF ExtractedContent(ex.err) # << >>
       THEN \* lines 247-283: the save is made without a session_id
            LET response == RecoveredResponse(ExtractedContent(ex.err))
                target == Resolve(NoSession)
                saved == SaveHistories(loaded, target, u, response)
            IN  /\ session_histories' = saved
                /\ memory_stats' = SaveStats(memory_stats, Len(saved[target]),
                                             summarization_threshold, t)
                /\ now' = t
                /\ turns' = [turns EXCEPT ![sid] = @ + 1]
       ELSE \* lines 285-290
            /\ session_histories' = loaded
            /\ UNCHANGED <<memory_stats, now, turns>>

\* process_input(state, session_id) where the executor ends as ex
process_input(sidArg, u, ex) ==
    /\ ProcessInputStore(sidArg, u, ex)
    /\ last' = Call("process_input", sidArg, u, memory_stats,
                    ProcessInputReturn(u, ex))

\* get_conversation_summary(session_id)
get_conversation_summary(sidArg) ==
    LET sid == Resolve(sidArg)
        res == ReadResult(session_histories, memory_stats,
                          summarization_threshold, sidArg)
    IN  /\ session_histories' = get_session_history(session_histories, sid)
        /\ memory_stats' = StatsAfterRead(memory_stats,
                              res.stats.current_buffer_count,
                              res.stats.has_summary)
        /\ UNCHANGED <<buffer_size, summarization_threshold, now, turns>>
        /\ UNCHANGED hvars
        /\ UNCHANGED fvars
        /\ UNCHANGED cvars
        /\ last' = Call("get_conversation_summary", sidArg, 0, memory_stats,
                        [kind |-> "read", value |-> res])

\* update_summary(session_id)
update_summary(sidArg) ==
    LET sid == Resolve(sidArg)
        loaded == get_session_history(session_histories, sid)
        msgs == loaded[sid]
        t == now + 1
    IN  /\ session_histories' = loaded
        /\ UNCHANGED <<buffer_size, summarization_threshold, turns>>
        /\ UNCHANGED hvars
        /\ UNCHANGED fvars
        /\ UNCHANGED cvars
        /\ IF Len(msgs) > summarization_threshold
           THEN /\ now < MaxClock
                /\ now' = t
                /\ memory_stats' =
                     [memory_stats EXCEPT !.summarizations_count = @ + 1,
                                          !.last_summarization = t]
           ELSE UNCHANGED <<memory_stats, now>>
        /\ last' = Call("update_summary", sidArg, 0, memory_stats,
                        [kind |-> "text",
                         value |-> UpdatedSummary(msgs, summarization_threshold)])

\* set_max_token_limit(max_tokens)
set_max_token_limit(n) ==
    /\ summarization_threshold' = n
    /\ memory_stats' = [memory_stats EXCEPT !.summarization_threshold = n]
    /\ UNCHANGED <<buffer_size, session_histories, now, turns>>
    /\ UNCHANGED hvars
    /\ UNCHANGED fvars
    /\ UNCHANGED cvars
    /\ last' = Call("set_max_token_limit", NoSession, n, memory_stats, NoReturn)

\* clear_memory(session_id)
clear_memory(sidArg) ==
    LET sid == Resolve(sidArg)
    IN  /\ session_histories' = ClearHistories(session_histories, sid)
        /\ memory_stats' = ClearedStats(buffer_size, summarization_threshold)
        /\ turns' = [turns EXCEPT ![sid] = 0]
        /\ UNCHANGED <<buffer_size, summarization_threshold, now>>
        /\ UNCHANGED hvars
        /\ UNCHANGED fvars
        /\ UNCHANGED cvars
        /\ last' = Call("clear_memory", sidArg, 0, memory_stats, NoReturn)

Next ==
    \/ \E sidArg \in SessionArgs, u \in UserTexts, ex \in ExecOutcomes :
          process_input(sidArg, u, ex)
    \/ \E sidArg \in SessionArgs : get_conversation_summary(sidArg)
    \/ \E sidArg \in SessionArgs : update_summary(sidArg)
    \/ \E n \in ThresholdInputs : set_max_token_limit(n)
    \/ \E sidArg \in SessionArgs : clear_memory(sidArg)

Spec == Init /\ [][Next]_vars

\* ------------------------------------------------------ Workflow.invoke
\* workflow.py lines 84-89: re.search(r'<think>([\s\S]+?)</think>([\s\S]*)')
\* on the response; when a non-empty block is found the response becomes
\* what follows it, stripped
InvokeResponse(c) ==
    LET open == FirstAt(c, "<think>", 1)
        close == IF open = 0 THEN 0 ELSE FirstAt(c, "</think>", open + 2)
    IN  IF close = 0 THEN c ELSE Strip(SubSeq(c, close + 1, Len(c)))

\* workflow.py lines 78-153: the ResultObject made from process_input's dict
InvokeReturn(result) ==
    [result EXCEPT !.response = InvokeResponse(result.response)]

\* Workflow.invoke(user_input): process_input is called without a session_id
invoke(u, ex) ==
    /\ ProcessInputStore(NoSession, u, ex)
    /\ last' = Call("invoke", NoSession, u, memory_stats,
                    InvokeReturn(ProcessInputReturn(u, ex)))

\* ------------------------- Workflow.stream, astream and astream_tokens
\* the log of an AgentAction, with and without a reasoning block
StreamLogs == {<<"l">>, <<"<think>", " ", "t", "</think>", "l">>}

\* the AgentAction of a step
StreamAction(log) == [tool |-> "weather", tool_input |-> "Tokyo", log |-> log]

\* the intermediate steps of a streamed run: none, or one tool call
StreamActionSeqs == {<< >>} \cup {<<StreamAction(log)>> : log \in StreamLogs}

\* the dicts that AgentExecutor.stream yields: one with the key "actions"
\* and one with the key "steps" for every step, then the final one with
\* "output" and, as the executor is built with return_intermediate_steps,
\* "intermediate_steps"
ActionChunk(a) == [key |-> "actions", actions |-> <<a>>, output |-> << >>]
StepChunk(a) == [key |-> "steps", actions |-> <<a>>, output |-> << >>]
FinalChunk(acts, out) == [key |-> "output", actions |-> acts, output |-> out]

RECURSIVE StepChunks(_)
StepChunks(acts) ==
    IF acts = << >> THEN << >>
    ELSE <<ActionChunk(Head(acts)), StepChunk(Head(acts))>>
           \o StepChunks(Tail(acts))

ExecutorChunks(acts, out) == StepChunks(acts) \o <<FinalChunk(acts, out)>>

\* str(chunk)
RECURSIVE LogsOf(_)
LogsOf(acts) ==
    IF acts = << >> THEN << >> ELSE Head(acts).log \o LogsOf(Tail(acts))

StrOfChunk(chunk) ==
    <<"{'", chunk.key, "': ">> \o LogsOf(chunk.actions) \o chunk.output
      \o <<"}">>

\* workflow.py lines 292-295: "intermediate_steps" in chunk
ModeOf(chunk) == IF chunk.key = "output" THEN "updates" ELSE "messages"

\* re.search of a pattern that starts with <think>([\s\S]+?)</think>:
\* <<open, close>> indexes of the first non-empty block, <<0, 0>> if none
ThinkMatch(c) ==
    LET open == FirstAt(c, "<think>", 1)
        close == IF open = 0 THEN 0 ELSE FirstAt(c, "</think>", open + 2)
    IN  IF close = 0 THEN <<0, 0>> ELSE <<open, close>>

\* workflow.py lines 431-492: Workflow._format_chunk(mode, chunk)
FormatChunk(mode, chunk) ==
    IF mode = "updates"
    THEN IF chunk.key = "output" /\ chunk.actions # << >>
         THEN LET action == chunk.actions[Len(chunk.actions)]
                  m == ThinkMatch(action.log)
              IN  [type |-> "tool_usage",
                   tool |-> action.tool,
                   input |-> action.tool_input,
                   thought |->
                     IF m[1] # 0
                     THEN Strip(SubSeq(action.log, m[1] + 1, m[2] - 1))
                     ELSE action.log]
         ELSE [type |-> "thinking", content |-> StrOfChunk(chunk)]
    ELSE IF mode = "messages"
    THEN LET content == IF chunk.key = "output" THEN chunk.output
                        ELSE StrOfChunk(chunk)
             m == ThinkMatch(content)
         IN  IF m[1] # 0
             THEN [type |-> "structured_token",
                   thinking |-> Strip(SubSeq(content, m[1] + 1, m[2] - 1)),
                   content |-> Strip(SubSeq(content, m[2] + 1, Len(content)))]
             ELSE [type |-> "token", content |-> content]
    ELSE [type |-> "unknown", content |-> StrOfChunk(chunk)]

\* lines 288-299 and 346-357: the (mode, formatted chunk) pairs yielded
RECURSIVE Yielded(_)
Yielded(chunks) ==
    IF chunks = << >> THEN << >>
    ELSE <<[mode |-> ModeOf(Head(chunks)),
            chunk |-> FormatChunk(ModeOf(Head(chunks)), Head(chunks))]>>
           \o Yielded(Tail(chunks))

\* lines 259-285, 317-343 and 388-418: Agent.__init__ sets no attribute
\* named memory, so self.agent.memory.load_memory_variables({}) raises an
\* AttributeError, which is caught, and the input of the except branch is used
StreamPrompt(u) == <<"Current Question: ">> \o u

\* what a streamed turn did: the input given to the executor, the pairs it
\* yielded, the executor's final answer and the exception that ended it
StreamReturn(u, yielded, out) ==
    [kind |-> "stream", prompt |-> StreamPrompt(u), events |-> yielded,
     answer |-> out, raised |-> "AttributeError"]

\* a streamed turn stores nothing: the executor is run without the history
\* wrapper, and the save of lines 302-305, 360-363 and 424-427 raises an
\* AttributeError on self.agent.memory
StreamStore ==
    /\ UNCHANGED <<buffer_size, summarization_threshold, memory_stats,
                   session_histories, now, turns>>
    /\ UNCHANGED hvars
    /\ UNCHANGED fvars
    /\ UNCHANGED cvars

\* Workflow.stream(user_input), iterated to its end
stream(u, acts, out) ==
    /\ last' = Call("stream", NoSession, u, memory_stats,
                    StreamReturn(u, Yielded(ExecutorChunks(acts, out)), out))
    /\ StreamStore

\* Workflow.astream(user_input), iterated to its end
astream(u, acts, out) ==
    /\ last' = Call("astream", NoSession, u, memory_stats,
                    StreamReturn(u, Yielded(ExecutorChunks(acts, out)), out))
    /\ StreamStore

\* Workflow.astream_tokens(user_input, callbacks), awaited
astream_tokens(u, out) ==
    /\ last' = Call("astream_tokens", NoSession, u, memory_stats,
                    StreamReturn(u, << >>, out))
    /\ StreamStore

\* turns only, made through Agent.process_input or Workflow.invoke or one of
\* the streaming methods of Workflow, with the executor's steps and answers
\* in full
TurnNext ==
    \/ \E sidArg \in SessionArgs, u \in UserTexts, ex \in TurnOutcomes :
          process_input(sidArg, u, ex)
    \/ \E u \in UserTexts, ex \in TurnOutcomes : invoke(u, ex)
    \/ \E u \in UserTexts, acts \in StreamActionSeqs, out \in TurnOutputs :
          stream(u, acts, out)
    \/ \E u \in UserTexts, acts \in StreamActionSeqs, out \in TurnOutputs :
          astream(u, acts, out)
    \/ \E u \in UserTexts, out \in TurnOutputs : astream_tokens(u, out)

TurnSpec == Init /\ [][TurnNext]_vars



\* ===================================================== StreamingHandler
\* number of callbacks that a run delivers to the handler
MaxCallbacks == 6

\* one chunk of model output; the reasoning markers are pieces of their own
TokenInputs ==
    { <<"a">>, <<"<think>", "t">>, <<"t", "</think>", "a">>,
      <<"<think>", "t", "</think>", "a">> }

\* serialized["name"] and input_str of a tool start
StreamTools == {"weather"}
StreamToolInputs == {"Tokyo"}

\* the outputs of a chain end: those of a nested chain carry no "output" key,
\* those of the executor carry the final answer
ChainOutputs ==
    { [has_output |-> FALSE, output |-> << >>],
      [has_output |-> TRUE, output |-> <<"ans">>] }

StreamErrors ==
    { [pattern |-> "parse", content |-> c] :
          c \in { <<"r">>, <<"<think>", "t", "</think>", "r">>,
                  <<"r", "\n", "s">>,
                  <<"Thought:", "t", "Final Answer:", "r">>,
                  <<"<think>", "t", "</think>">>,
                  <<"<think>", "t", "</think>", " ">> } }
      \cup { [pattern |-> "none", content |-> << >>] }

\* the backtick character
Backtick == "[backtick]"

\* str(error)
ErrorStr(err) ==
    IF err.pattern = "none" THEN <<"error_str">>
    ELSE <<"Could not parse LLM output: ", Backtick>> \o err.content
           \o <<Backtick>>

\* _escape_special_chars, on one character
EscapePiece(p) ==
    CASE p = "\\" -> "\\\\"
      [] p = "\"" -> "\\\""
      [] p = "\n" -> "\\n"
      [] p = "\r" -> "\\r"
      [] p = "\t" -> "\\t"
      [] OTHER -> p

\* _escape_special_chars
escape_special_chars(text) == [i \in 1 .. Len(text) |-> EscapePiece(text[i])]

Event(type, content) == [type |-> type, content |-> content]

ToolOpen(tool_name) ==
    Event("tool_separator", <<"\n---Using ", tool_name, "---\n">>)
ToolClose == Event("tool_separator", <<"\n---Tool Complete---\n">>)

\* lines 60-67
StructuredUpdate(tb, fcs, rb) ==
    Event("structured_update",
          [thinking |-> Strip(tb), function_calls |-> fcs,
           response |-> Strip(rb)])

\* lines 124-161 and 210-244: what the handler reads from the agent.
\* The dict of get_conversation_summary() has no 'history' key, so
\* conversation_history stays empty.
StructuredOutput(thinking, fcs, response, summary) ==
    Event("structured_output",
          [thinking |-> thinking, function_calls |-> fcs,
           response |-> response, conversation_summary |-> summary,
           conversation_history |-> << >>])

Has(token, m) == \E i \in 1 .. Len(token) : token[i] = m

\* token.replace("<think>", "")
WithoutOpen(token) == SelectSeq(token, LAMBDA p : p # "<think>")

\* token.split("</think>")[0] and [1]
Part0(token) == SubSeq(token, 1, FirstAt(token, "</think>", 1) - 1)
Part1(token) ==
    LET k == FirstAt(token, "</think>", 1)
        n == FirstAt(token, "</think>", k + 1)
    IN  SubSeq(token, k + 1, IF n = 0 THEN Len(token) ELSE n - 1)

\* lines 30-69: the section, the buffers and the events put for one token
TokenStep(section, tb, rb, fcs, token) ==
    LET open == Has(token, "<think>")
        close == ~open /\ Has(token, "</think>")
        sec1 == IF open THEN "thinking"
                ELSE IF close THEN "response" ELSE section
        head == IF close THEN Part0(token) ELSE << >>
        tb1 == tb \o head
        ev1 == IF head # << >>
               THEN << Event("thinking", escape_special_chars(head)) >>
               ELSE << >>
        tok == IF open THEN WithoutOpen(token)
               ELSE IF close THEN Part1(token) ELSE token
    IN  IF sec1 = "thinking" /\ tok # << >>
        THEN [section |-> sec1,
              thinking_buffer |-> tb1 \o tok,
              response_buffer |-> rb,
              events |-> ev1 \o << Event("thinking",
                                         escape_special_chars(tok)) >>]
        ELSE IF sec1 = "response" /\ tok # << >>
        THEN [section |-> sec1,
              thinking_buffer |-> tb1,
              response_buffer |-> rb \o tok,
              events |-> ev1 \o << Event("token", escape_special_chars(tok)),
                                   StructuredUpdate(tb1, fcs, rb \o tok) >>]
        ELSE [section |-> sec1,
              thinking_buffer |-> tb1,
              response_buffer |-> rb,
              events |-> ev1]

\* lines 186-207: thinking and response split out of the extracted content
HandlerRecovered(c) ==
    LET b1 == TagBlock(c, "<think>", "</think>")
        b2 == TagBlock(c, "<thinking>", "</thinking>")
        t == FirstAt(c, "Thought:", 1)
        thinking ==
            IF b1[1] # 0 THEN Strip(SubSeq(c, b1[1] + 1, b1[2] - 1))
            ELSE IF b2[1] # 0 THEN Strip(SubSeq(c, b2[1] + 1, b2[2] - 1))
            ELSE IF t # 0
            THEN Strip(SubSeq(c, t + 1, ThoughtStop(c, t + 1) - 1))
            ELSE << >>
        response ==
            IF b1[1] # 0 THEN Strip(RemoveTag(c, "<think>", "</think>"))
            ELSE IF b2[1] # 0
            THEN Strip(RemoveTag(c, "<thinking>", "</thinking>"))
            ELSE IF t # 0 THEN Strip(RemoveThought(c))
            ELSE Strip(c)
    IN  [thinking |-> thinking,
         response |-> IF response = << >> THEN ParseFallbackText
                      ELSE response]

\* the summary that self.agent.get_conversation_summary() returns
AgentSummary ==
    ReadResult(session_histories, memory_stats, summarization_threshold,
               NoSession).summary

NoError == [pattern |-> "none", content |-> << >>]

\* a callback delivered to the handler; final marks the chain end that
\* carries the executor's outputs, err is the error of a chain error
Delivered(name, final, err) == [name |-> name, final |-> final, err |-> err]

Deliver(name, final, err) ==
    /\ Len(callbacks) < MaxCallbacks
    /\ callbacks' = Append(callbacks, Delivered(name, final, err))
    /\ UNCHANGED avars
    /\ UNCHANGED fvars
    /\ UNCHANGED cvars

\* on_llm_start
on_llm_start ==
    /\ phase \in {"start", "after_tool"}
    /\ Deliver("on_llm_start", FALSE, NoError)
    /\ current_section' = "thinking"
    /\ phase' = "llm"
    /\ UNCHANGED <<function_calls, thinking_buffer, response_buffer, queue>>

\* on_llm_new_token(token): a token of the model, which may also arrive
\* while a tool runs
on_llm_new_token(token) ==
    LET r == TokenStep(current_section, thinking_buffer, response_buffer,
                       function_calls, token)
    IN  /\ phase \in {"llm", "tool"}
        /\ Deliver("on_llm_new_token", FALSE, NoError)
        /\ current_section' = r.section
        /\ thinking_buffer' = r.thinking_buffer
        /\ response_buffer' = r.response_buffer
        /\ queue' = queue \o r.events
        /\ UNCHANGED <<function_calls, phase>>

\* on_tool_start(serialized, input_str) with a plain string input
on_tool_start(tool_name, input_str) ==
    /\ phase = "llm"
    /\ Deliver("on_tool_start", FALSE, NoError)
    /\ current_section' = "tool"
    /\ function_calls' = Append(function_calls,
                                [tool |-> tool_name,
                                 parameters |-> [input |-> input_str]])
    /\ queue' = Append(queue, ToolOpen(tool_name))
    /\ phase' = "tool"
    /\ UNCHANGED <<thinking_buffer, response_buffer>>

\* on_tool_end
on_tool_end ==
    /\ phase = "tool"
    /\ Deliver("on_tool_end", FALSE, NoError)
    /\ current_section' = "thinking"
    /\ queue' = Append(queue, ToolClose)
    /\ phase' = "after_tool"
    /\ UNCHANGED <<function_calls, thinking_buffer, response_buffer>>

\* on_chain_end(outputs): the end of a nested chain of the run (the prompt,
\* the model call, the parser) or, with the "output" key, of the executor
on_chain_end(outputs) ==
    LET rb == IF outputs.has_output THEN outputs.output ELSE response_buffer
    IN  /\ IF outputs.has_output THEN phase = "llm"
           ELSE phase \in {"start", "llm", "after_tool"}
        /\ Deliver("on_chain_end", outputs.has_output, NoError)
        /\ current_section' = "response"
        /\ response_buffer' = rb
        /\ queue' = Append(queue,
                           StructuredOutput(Strip(thinking_buffer),
                                            function_calls, Strip(rb),
                                            AgentSummary))
        /\ phase' = IF outputs.has_output THEN "done" ELSE phase
        /\ UNCHANGED <<function_calls, thinking_buffer>>

\* on_chain_error(error)
on_chain_error(err) ==
    LET extracted == ExtractedContent(err)
        rec == HandlerRecovered(extracted)
        error_event == Event("error", escape_special_chars(ErrorStr(err)))
    IN  /\ phase \in {"start", "llm", "tool", "after_tool"}
        /\ Deliver("on_chain_error", FALSE, err)
        /\ phase' = "failed"
        /\ UNCHANGED <<current_section, function_calls>>
        /\ IF extracted # << >>
           THEN /\ thinking_buffer' = rec.thinking
                /\ response_buffer' = rec.response
                /\ queue' = queue \o
                     << error_event,
                        StructuredOutput(rec.thinking, function_calls,
                                         rec.response, AgentSummary),
                        Event("token", escape_special_chars(rec.response)) >>
           ELSE /\ queue' = Append(queue, error_event)
                /\ UNCHANGED <<thinking_buffer, response_buffer>>

StreamNext ==
    \/ on_llm_start
    \/ \E token \in TokenInputs : on_llm_new_token(token)
    \/ \E tool_name \in StreamTools, input_str \in StreamToolInputs :
          on_tool_start(tool_name, input_str)
    \/ on_tool_end
    \/ \E outputs \in ChainOutputs : on_chain_end(outputs)
    \/ \E err \in StreamErrors : on_chain_error(err)

StreamSpec == Init /\ [][StreamNext]_vars

\* ===================================== the streaming endpoints of app.py
\* /chat/astream (AsyncStreamChat) and /chat/stream_token_by_token
\* (StreamTokenByToken)
Endpoints == {"astream", "stream_token_by_token"}

\* a queue made once and used by every request
NewQueueShared(r) == "req1"

\* queue = Queue() of app.py lines 250 and 389: a new object for every request
NewQueue(r) == r

\* get_streaming_handler(wf.agent), streaming_handler.py lines 282-294: a new
\* StreamingHandler for every call
NewHandler(r) == r

\* queue.put(None)
EndOfStream == [type |-> "None"]

\* str(e) of the TypeError raised by a call of a method of Workflow with
\* session_id=..., a keyword that stream, astream and astream_tokens do not
\* accept
TypeErrorText(method) ==
    <<"Workflow.", method, "() got an unexpected keyword argument 'session_id'">>

\* str(e) of an exception raised by Workflow() of line 399
WorkflowInitError == <<"Workflow() raised">>

\* the method of Workflow that the thread of an endpoint calls, lines 260, 410
MethodOf(ep) == IF ep = "astream" THEN "astream" ELSE "astream_tokens"

\* an except branch that reports the exception as a thinking chunk
ErrorChunkMistyped(ep, r, e) ==
    [type |-> "thinking", content |-> e, origin |-> r]

\* lines 266-271, 277-282 and 427: the chunk put when the call raised e;
\* origin is not part of the chunk, it names the request whose thread put it
ErrorChunk(ep, r, e) ==
    IF ep = "astream"
    THEN [type |-> "error", content |-> e, stream_mode |-> "error",
          origin |-> r]
    ELSE [type |-> "error", content |-> e, origin |-> r]

\* an except branch that puts no end-of-stream marker
FinallyPutsNothing(ep) == << >>

\* an except branch followed by a finally that puts the marker again
FinallyPutsTwice(ep) == <<EndOfStream, EndOfStream>>

\* lines 273 and 428: what is put after the error chunk
FinallyPuts(ep) == <<EndOfStream>>

\* generate(), lines 292-297 and 437-470: what the generator yields for a
\* chunk taken from the queue, << >> when it yields nothing
Frames(ep, chunk) ==
    IF ep = "astream"
    THEN <<[event |-> "chunk", data |-> chunk, origin |-> chunk.origin]>>
    ELSE IF chunk.type \in {"thinking", "token", "tool_separator"}
    THEN <<[event |-> "message", data |-> chunk.content,
            origin |-> chunk.origin]>>
    ELSE IF chunk.type = "error"
    THEN <<[event |-> "error", data |-> chunk.content,
            origin |-> chunk.origin]>>
    ELSE IF chunk.type = "final"
    THEN <<[event |-> "message",
            data |-> <<"\n\n", "Final Answer: ">> \o chunk.content,
            origin |-> chunk.origin]>>
    ELSE IF chunk.type \in {"structured_output", "structured_update"}
    THEN <<[event |-> chunk.type, data |-> chunk.content,
            origin |-> chunk.origin]>>
    ELSE << >>

\* post(): lines 250, 288-289 and 389, 433-434: the queue is made, the
\* thread is started and the response that iterates generate() is returned
post(r, ep) ==
    /\ requests[r].endpoint = "none"
    /\ requests' = [requests EXCEPT ![r] =
                      [@ EXCEPT !.endpoint = ep,
                                !.queue_id = NewQueue(r),
                                !.thread = "started",
                                !.consumer = "reading"]]
    /\ queues' = [queues EXCEPT ![NewQueue(r)] = << >>]
    /\ UNCHANGED <<avars, hvars, cvars>>

\* run_async_workflow up to loop.run_until_complete, lines 253-254 and
\* 394-402: the loop is made; the token endpoint makes a Workflow, which may
\* raise, and a handler
thread_setup(r, ok) ==
    LET req == requests[r]
    IN  /\ req.thread = "started"
        /\ requests' = [requests EXCEPT ![r] =
             IF req.endpoint = "astream" \/ ok
             THEN [req EXCEPT !.loop = "open",
                              !.handler_id =
                                 IF req.endpoint = "astream" THEN "none"
                                 ELSE NewHandler(r),
                              !.thread = "ready"]
             ELSE [req EXCEPT !.loop = "open",
                              !.thread = "raised",
                              !.error = WorkflowInitError]]
        /\ UNCHANGED <<queues, avars, hvars, cvars>>

\* loop.run_until_complete, lines 257-275 and 405-425: the call of
\* workflow.astream or wf.astream_tokens with session_id raises a TypeError.
\* In the token endpoint the forwarder task was made by create_task before
\* the call; the loop gives it one step, in which it starts to wait on the
\* handler's empty queue (aiter, line 263), and then stops.
run(r) ==
    LET req == requests[r]
    IN  /\ req.thread = "ready"
        /\ requests' = [requests EXCEPT ![r] =
             [req EXCEPT !.thread = "raised",
                         !.error = TypeErrorText(MethodOf(req.endpoint)),
                         !.forwarder =
                            IF req.endpoint = "astream" THEN "none"
                            ELSE "waiting"]]
        /\ UNCHANGED <<queues, avars, hvars, cvars>>

\* the except branch, lines 264-271 and 426-427
put_error(r) ==
    LET req == requests[r]
    IN  /\ req.thread = "raised"
        /\ queues' = [queues EXCEPT ![req.queue_id] =
                        Append(@, ErrorChunk(req.endpoint, r, req.error))]
        /\ requests' = [requests EXCEPT ![r] = [req EXCEPT !.thread = "error_put"]]
        /\ UNCHANGED <<avars, hvars, cvars>>

\* queue.put(None), lines 273 and 428
put_sentinel(r) ==
    LET req == requests[r]
    IN  /\ req.thread = "error_put"
        /\ queues' = [queues EXCEPT ![req.queue_id] =
                        @ \o FinallyPuts(req.endpoint)]
        /\ requests' = [requests EXCEPT ![r] =
                          [req EXCEPT !.thread = "sentinel_put"]]
        /\ UNCHANGED <<avars, hvars, cvars>>

\* finally: loop.close(), lines 284-285 and 429-430, and the thread ends; a
\* task that is still pending stays pending
close_loop(r) ==
    LET req == requests[r]
    IN  /\ req.thread = "sentinel_put"
        /\ requests' = [requests EXCEPT ![r] =
                          [req EXCEPT !.thread = "finished",
                                      !.loop = "closed"]]
        /\ UNCHANGED <<queues, avars, hvars, cvars>>

\* one round of the loop of generate(): queue.get() and the yield
consume(r) ==
    LET req == requests[r]
    IN  /\ req.consumer = "reading"
        /\ queues[req.queue_id] # << >>
        /\ LET chunk == Head(queues[req.queue_id])
           IN  requests' = [requests EXCEPT ![r] =
                 IF chunk = EndOfStream
                 THEN [req EXCEPT !.consumer = "done"]
                 ELSE [req EXCEPT !.received =
                                     @ \o Frames(req.endpoint, chunk)]]
        /\ queues' = [queues EXCEPT ![req.queue_id] = Tail(@)]
        /\ UNCHANGED <<avars, hvars, cvars>>

\* the client goes away and the server closes the generator
disconnect(r) ==
    /\ requests[r].consumer = "reading"
    /\ requests' = [requests EXCEPT ![r] = [@ EXCEPT !.consumer = "closed"]]
    /\ UNCHANGED <<queues, avars, hvars, cvars>>

FacadeNext ==
    \/ \E r \in RequestIds, ep \in Endpoints : post(r, ep)
    \/ \E r \in RequestIds, ok \in BOOLEAN : thread_setup(r, ok)
    \/ \E r \in RequestIds : run(r)
    \/ \E r \in RequestIds : put_error(r)
    \/ \E r \in RequestIds : put_sentinel(r)
    \/ \E r \in RequestIds : close_loop(r)
    \/ \E r \in RequestIds : consume(r)
    \/ \E r \in RequestIds : disconnect(r)

FacadeSpec == Init /\ [][FacadeNext]_vars

\* the thread of a request runs to its end once started, and the server
\* iterates generate() as long as the client is there
FacadeFairness ==
    \A r \in RequestIds :
        /\ WF_vars(\E ok \in BOOLEAN : thread_setup(r, ok))
        /\ WF_vars(run(r))
        /\ WF_vars(put_error(r))
        /\ WF_vars(put_sentinel(r))
        /\ WF_vars(close_loop(r))
        /\ WF_vars(consume(r))

FacadeFairSpec == Init /\ [][FacadeNext]_vars /\ FacadeFairness

\* ================================= turns of two threads on the one Agent
\* The server runs every request in a thread of its own, and process_input
\* of the one Agent takes no lock.  A turn that the executor completes is
\* taken in the steps in which it reads and writes the Agent's fields.
ThreadOutputs == {<<"ans">>, StopText}

\* the histories and the statistics are left as they are
ThreadKeeps == UNCHANGED <<buffer_size, summarization_threshold, last>>

\* lines 141-144: self.agent_with_history.invoke returns; the wrapper has
\* appended the exchange to the history of the session
turn_invoke(t, sidArg, u, out) ==
    LET sid == Resolve(sidArg)
    IN  /\ threads[t].pc = "idle"
        /\ session_histories' =
             agent_with_history_record(
                 get_session_history(session_histories, sid), sid, u, out)
        /\ threads' = [threads EXCEPT ![t] =
                         [pc |-> "invoked", sid |-> sid, output |-> out,
                          loaded |-> 0]]
        /\ ThreadKeeps
        /\ UNCHANGED <<memory_stats, now, turns, hvars, fvars>>

\* lines 113-118: the two appends of save_context_with_stats
turn_append(t, u) ==
    /\ threads[t].pc = "invoked"
    /\ session_histories' =
         SaveHistories(session_histories, threads[t].sid, u, threads[t].output)
    /\ threads' = [threads EXCEPT ![t].pc = "appended"]
    /\ ThreadKeeps
    /\ UNCHANGED <<memory_stats, now, turns, hvars, fvars>>

\* line 121, self.memory_stats['total_messages'] += 2: the value is read
turn_load(t) ==
    /\ threads[t].pc = "appended"
    /\ threads' = [threads EXCEPT ![t].pc = "loaded",
                                  ![t].loaded = memory_stats.total_messages]
    /\ ThreadKeeps
    /\ UNCHANGED <<session_histories, memory_stats, now, turns, hvars, fvars>>

\* lines 121-128: the sum is written, then last_updated and the
\* summarization check
turn_store(t) ==
    LET tick == now + 1
        written == [memory_stats EXCEPT
                      !.total_messages = threads[t].loaded + 2,
                      !.last_updated = tick]
    IN  /\ threads[t].pc = "loaded"
        /\ now < MaxClock
        /\ now' = tick
        /\ memory_stats' =
             IF SummarizationTriggered(Len(session_histories[threads[t].sid]),
                                       summarization_threshold)
             THEN [written EXCEPT !.summarizations_count = @ + 1,
                                  !.last_summarization = tick]
             ELSE written
        /\ turns' = [turns EXCEPT ![threads[t].sid] = @ + 1]
        /\ threads' = [threads EXCEPT ![t].pc = "done"]
        /\ ThreadKeeps
        /\ UNCHANGED <<session_histories, hvars, fvars>>

ConcurrentNext ==
    \/ \E t \in ThreadIds, sidArg \in SessionArgs, u \in UserTexts,
          out \in ThreadOutputs : turn_invoke(t, sidArg, u, out)
    \/ \E t \in ThreadIds, u \in UserTexts : turn_append(t, u)
    \/ \E t \in ThreadIds : turn_load(t)
    \/ \E t \in ThreadIds : turn_store(t)

ConcurrentSpec == Init /\ [][ConcurrentNext]_vars

\* =============================================================== claims
\* the log a session id denotes: a session that was never referenced has
\* no history
LogOf(h, s) == IF s \in DOMAIN h THEN h[s] ELSE << >>

\* the session whose history the last process_input call saved to
SavedTo(call) ==
    IF call.ret.path = "recovered" THEN Resolve(NoSession)
    ELSE Resolve(call.sid)

\* C1 (P1): the total_messages that a read of session S reports is twice the
\* number of turns answered on S since S was created or cleared, whatever was
\* done on other sessions in between.
C1_TotalIsTwiceTurnsOfSession ==
    last.op = "get_conversation_summary" =>
        last.ret.value.stats.total_messages = 2 * turns[Resolve(last.sid)]

\* C2: a turn that the executor completes grows the session's log by exactly
\* two messages, the Human message with the user text and then an Assistant
\* message, and total_messages grows by the same amount.
C2_TurnAppendsOneExchange ==
    [][ (last'.op = "process_input"
           /\ last'.ret.path \in {"completed", "capped"}) =>
        LET sid == Resolve(last'.sid)
            before == LogOf(session_histories, sid)
            after == session_histories'[sid]
        IN  /\ Len(after) = Len(before) + 2
            /\ SubSeq(after, 1, Len(before)) = before
            /\ after[Len(before) + 1] = HumanMessage(last'.arg)
            /\ after[Len(after)].role = "ai"
            /\ memory_stats'.total_messages - memory_stats.total_messages
                 = Len(after) - Len(before) ]_vars

\* C3 (P2): with a positive threshold, right after the append that triggers
\* summarization the session's summary is non-empty and its log holds at most
\* 2 messages.
C3_TriggeredAppendLeavesSummaryAndTwoMessages ==
    ( /\ last.op = "process_input"
      /\ last.ret.path # "failed"
      /\ summarization_threshold > 0
      /\ memory_stats.summarizations_count > last.pre.summarizations_count )
    => /\ SummaryOf(session_histories[SavedTo(last)],
                    summarization_threshold) # << >>
       /\ Len(session_histories[SavedTo(last)]) <= 2

\* C4: with a positive threshold, every session's log holds at most
\* 2 x summarization_threshold messages plus one exchange of overshoot.
C4_LogIsBounded ==
    summarization_threshold > 0 =>
        \A s \in DOMAIN session_histories :
            Len(session_histories[s]) <= 2 * summarization_threshold + 2

\* C5 (P3): right after clear(S), a read of S yields an empty log and an
\* empty summary, and a second clear(S) would change nothing.
C5_ClearThenReadIsEmptyAndClearIsIdempotent ==
    last.op = "clear_memory" =>
        LET read == ReadResult(session_histories, memory_stats,
                               summarization_threshold, last.sid)
        IN  /\ read.recent_messages = << >>
            /\ read.summary = << >>
            /\ ClearHistories(session_histories, Resolve(last.sid))
                 = session_histories
            /\ ClearedStats(buffer_size, summarization_threshold)
                 = memory_stats

\* C6: clear resets total_messages, the summarization count and the
\* last-summarization time, and leaves buffer_size and
\* summarization_threshold, as configured and as reported in the stats, at
\* the values they had before the clear.
C6_ClearResetsCountersKeepsConfig ==
    [][ last'.op = "clear_memory" =>
          /\ memory_stats'.total_messages = 0
          /\ memory_stats'.summarizations_count = 0
          /\ memory_stats'.last_summarization = NoTime
          /\ buffer_size' = buffer_size
          /\ summarization_threshold' = summarization_threshold
          /\ memory_stats'.buffer_size = memory_stats.buffer_size
          /\ memory_stats'.summarization_threshold
               = memory_stats.summarization_threshold ]_vars

\* C6 witness: a clear was made after counters had grown, with a threshold
\* that set_max_token_limit had changed from the constructor's default.
C6_Witness ==
    /\ last.op = "clear_memory"
    /\ last.pre.total_messages > 0
    /\ last.pre.summarizations_count > 0
    /\ summarization_threshold = 1
    /\ memory_stats.summarization_threshold = 1
    /\ memory_stats.total_messages = 0

\* C7: a call that sets the threshold to a non-positive value is rejected
\* with an error and leaves the threshold, the stats and every log unchanged.
C7_NonPositiveThresholdRejected ==
    [][ (last'.op = "set_max_token_limit" /\ last'.arg <= 0) =>
          /\ last'.ret.kind = "raise"
          /\ summarization_threshold' = summarization_threshold
          /\ memory_stats' = memory_stats
          /\ session_histories' = session_histories ]_vars

\* C8: a read, clear or turn on a session id never referenced before does not
\* fail; the read returns an empty log and an empty summary, after the clear
\* the id reads as an empty log with an empty summary, and an absent id
\* addresses the default session.
C8_UnknownSessionBehavesAsFresh ==
    [][ (last'.op \in {"get_conversation_summary", "clear_memory",
                       "process_input"}
           /\ Resolve(last'.sid) \notin DOMAIN session_histories) =>
          /\ last'.ret.kind # "raise"
          /\ last'.sid = NoSession => Resolve(last'.sid) = DefaultSession
          /\ last'.op = "get_conversation_summary" =>
                /\ last'.ret.value.recent_messages = << >>
                /\ last'.ret.value.summary = << >>
          /\ last'.op = "clear_memory" =>
                LET read == ReadResult(session_histories', memory_stats',
                                       summarization_threshold', last'.sid)
                IN  /\ read.recent_messages = << >>
                    /\ read.summary = << >> ]_vars

\* C9: the first read of a session id that was never referenced reports
\* total_messages = 0 and a summarization count of 0, with buffer_size and
\* summarization_threshold as configured.
C9_NewSessionStartsWithZeroedStats ==
    [][ (last'.op = "get_conversation_summary"
           /\ Resolve(last'.sid) \notin DOMAIN session_histories) =>
          /\ last'.ret.value.stats.total_messages = 0
          /\ last'.ret.value.stats.summarizations_count = 0
          /\ last'.ret.value.stats.buffer_size = buffer_size
          /\ last'.ret.value.stats.summarization_threshold
               = summarization_threshold ]_vars

\* C10: a read leaves the log of every session id, the configuration and the
\* stats as they were, and a second read of the same id returns what the
\* first returned.
C10_ReadIsPure ==
    [][ last'.op = "get_conversation_summary" =>
          /\ \A s \in SessionIds :
                LogOf(session_histories', s) = LogOf(session_histories, s)
          /\ memory_stats' = memory_stats
          /\ buffer_size' = buffer_size
          /\ summarization_threshold' = summarization_threshold
          /\ ReadResult(session_histories', memory_stats',
                        summarization_threshold', last'.sid)
               = last'.ret.value ]_vars

\* C10 witness: a read was made of a session that holds messages and for
\* which the read reports a summary.
C10_Witness ==
    /\ last.op = "get_conversation_summary"
    /\ last.ret.value.recent_messages # << >>
    /\ last.ret.value.summary # << >>
    /\ last.ret.value.stats.total_messages > 0

\* the content of the last Assistant message of a log, << >> when the log
\* has none
RECURSIVE LastAssistant(_)
LastAssistant(msgs) ==
    IF msgs = << >> THEN << >>
    ELSE IF msgs[Len(msgs)].role = "ai" THEN msgs[Len(msgs)].content
    ELSE LastAssistant(SubSeq(msgs, 1, Len(msgs) - 1))

\* C11: after every turn that ends by a clean or an iteration-capped
\* completion, the last Assistant message in the log of the turn's session
\* is the response text that the turn returned.
C11_MemoryHoldsReturnedResponse ==
    ( /\ last.op \in {"process_input", "invoke"}
      /\ last.ret.path \in {"completed", "capped"} )
    => LastAssistant(LogOf(session_histories, Resolve(last.sid)))
         = last.ret.response

\* C12: the response of a turn that the iteration cap ended is neither empty
\* nor the executor's generic stop text, whatever observations the turn's
\* steps collected.
C12_CappedTurnResponseIsNotGeneric ==
    ( /\ last.op \in {"process_input", "invoke"}
      /\ last.ret.path = "capped" )
    => /\ last.ret.response # << >>
       /\ last.ret.response # StopText

\* C13: a turn whose failure matches no recovery pattern ends in an error
\* raised to the caller, not in a returned result, and leaves the log of
\* every session id and the stats as they were.
C13_UnrecoverableFailureIsRaised ==
    [][ (last'.op \in {"process_input", "invoke"}
           /\ last'.ret.path = "failed") =>
          /\ last'.ret.kind = "raise"
          /\ \A s \in SessionIds :
                LogOf(session_histories', s) = LogOf(session_histories, s)
          /\ memory_stats' = memory_stats ]_vars

\* C14 (P6): a turn on session S whose failure matches a recovery pattern
\* returns a result, and the log of S grows by exactly one exchange, the
\* user text and then the recovered response that the turn returned.
C14_RecoveredExchangeGoesToTurnSession ==
    [][ (last'.op \in {"process_input", "invoke"}
           /\ last'.ret.path = "recovered") =>
          /\ last'.ret.kind = "result"
          /\ LogOf(session_histories', Resolve(last'.sid))
               = LogOf(session_histories, Resolve(last'.sid))
                   \o << HumanMessage(last'.arg),
                         AIMessage(last'.ret.response) >> ]_vars

\* the steps of a turn in which a tool of the agent was run
ToolInvocations(steps) ==
    SelectSeq(steps, LAMBDA st : st.tool \in ConfiguredTools)

\* C15: the function_calls of a completed turn have one entry per tool
\* invocation of the turn, in call order, each with the city the tool was
\* invoked for.
C15_OneFunctionCallPerInvocation ==
    ( /\ last.op \in {"process_input", "invoke"}
      /\ last.ret.path \in {"completed", "capped"} )
    => LET calls == last.ret.function_calls
           invoked == ToolInvocations(last.ret.steps)
       IN  /\ Len(calls) = Len(invoked)
           /\ \A i \in 1 .. Len(calls) :
                 calls[i].parameters.city = invoked[i].tool_input

\* ------------------------------------------------ streamed event order
IsClose(e) == e.type = "tool_separator" /\ e.content = ToolClose.content
IsOpen(e) == e.type = "tool_separator" /\ e.content # ToolClose.content

\* how many of the callbacks delivered have the given name
CallbackCount(name) == Len(SelectSeq(callbacks, LAMBDA c : c.name = name))

\* how many of the events put have the given type
EventCount(type) == Len(SelectSeq(queue, LAMBDA e : e.type = type))

\* the run delivered the callbacks of a turn that runs exactly one tool and
\* ends without failure: the model is started, streams its tokens and asks
\* for the tool; the tool runs with no token arriving meanwhile; the model
\* is started again, streams its tokens, and the executor's chain ends
OneToolTurn ==
    /\ phase = "done"
    /\ CallbackCount("on_tool_start") = 1
    /\ \A i \in 1 .. Len(callbacks) :
          /\ callbacks[i].name = "on_chain_end" => callbacks[i].final
          /\ callbacks[i].name = "on_tool_start" =>
                callbacks[i + 1].name = "on_tool_end"

\* the order of P4 as an automaton over the events: "before" (thinking
\* events, then the tool-open separator), "tool" (the tool-close separator
\* only), "after" (thinking events), "token" (a token awaiting its
\* structured_update), "pair" (after a pair), "end" (after the
\* structured_output), "bad"
P4Step(st, e) ==
    CASE st = "before" /\ e.type = "thinking" -> "before"
      [] st = "before" /\ IsOpen(e) -> "tool"
      [] st = "tool" /\ IsClose(e) -> "after"
      [] st = "after" /\ e.type = "thinking" -> "after"
      [] st \in {"after", "pair"} /\ e.type = "token" -> "token"
      [] st = "token" /\ e.type = "structured_update" -> "pair"
      [] st \in {"after", "pair"} /\ e.type = "structured_output" -> "end"
      [] OTHER -> "bad"

RECURSIVE P4Run(_, _)
P4Run(st, events) ==
    IF events = << >> THEN st
    ELSE P4Run(P4Step(st, Head(events)), Tail(events))

\* C16 (P4): the events of a streamed turn that runs exactly one tool are, in
\* order: thinking events, the tool-open separator, the tool-close separator
\* with nothing in between, thinking events, token/structured_update pairs,
\* and one structured_output, which is the last event.
C16_OneToolTurnEventOrder ==
    OneToolTurn => P4Run("before", queue) = "end"

\* C17: no thinking, token or structured_update event lies between a
\* tool-open separator and the tool-close separator that follows it.
C17_NothingStreamedWhileToolRuns ==
    \A i, k, j \in 1 .. Len(queue) :
        ( /\ i < k /\ k < j
          /\ IsOpen(queue[i])
          /\ IsClose(queue[j])
          /\ \A m \in (i + 1) .. (j - 1) : ~IsClose(queue[m]) )
        => queue[k].type \notin {"thinking", "token", "structured_update"}

\* C18: when a streamed request has completed without failure, exactly one
\* structured_output event was emitted and it is the last event.
C18_OneTerminalStructuredOutput ==
    phase = "done" =>
        /\ EventCount("structured_output") = 1
        /\ queue[Len(queue)].type = "structured_output"

\* the contents of the events of one type, concatenated in order
RECURSIVE ContentsOf(_, _)
ContentsOf(events, type) ==
    IF events = << >> THEN << >>
    ELSE (IF Head(events).type = type THEN Head(events).content ELSE << >>)
           \o ContentsOf(Tail(events), type)

\* C19: every token event is immediately followed by a structured_update
\* whose response is the concatenation of the contents of all token events
\* so far and whose thinking is the concatenation of the contents of all
\* thinking events so far.
C19_TokenMirroredInStructuredUpdate ==
    \A i \in 1 .. Len(queue) :
        queue[i].type = "token" =>
            /\ i < Len(queue)
            /\ queue[i + 1].type = "structured_update"
            /\ queue[i + 1].content.response
                 = ContentsOf(SubSeq(queue, 1, i), "token")
            /\ queue[i + 1].content.thinking
                 = ContentsOf(SubSeq(queue, 1, i), "thinking")

\* C20: a chain error puts an error event with the failure text first; when
\* the text matches a recovery pattern, a structured_output and then a token
\* event follow, both with the same recovered response, and nothing else;
\* when no pattern matches, nothing follows the error event.
C20_ErrorEventThenRecoveredOutput ==
    [][ (callbacks' # callbacks
           /\ callbacks'[Len(callbacks')].name = "on_chain_error") =>
        LET err == callbacks'[Len(callbacks')].err
            put == SubSeq(queue', Len(queue) + 1, Len(queue'))
        IN  /\ SubSeq(queue', 1, Len(queue)) = queue
            /\ put # << >>
            /\ put[1] = Event("error", ErrorStr(err))
            /\ IF ExtractedContent(err) # << >>
               THEN /\ Len(put) = 3
                    /\ put[2].type = "structured_output"
                    /\ put[3].type = "token"
                    /\ put[3].content = put[2].content.response
               ELSE Len(put) = 1 ]_vars


\* the frames of a request's client that carry a chunk of a given type
IsErrorFrame(f) ==
    \/ f.event = "error"
    \/ f.event = "chunk" /\ f.data.type = "error"

IsAnswerFrame(f) ==
    \/ f.event = "structured_output"
    \/ f.event = "message" /\ f.data # << >> /\ f.data[1] = "\n\n"
    \/ f.event = "chunk" /\ f.data.type \in {"structured_output", "final"}

\* C21: when the stream of a token-by-token request whose Workflow and
\* handler were made has ended, the client has received the events of the
\* handler in order and then, as the last frame, the final event.
C21_ClientReceivesEventsThenFinal ==
    \A r \in RequestIds :
        ( /\ requests[r].endpoint = "stream_token_by_token"
          /\ requests[r].handler_id # "none"
          /\ requests[r].consumer = "done" )
        => LET got == requests[r].received
           IN  /\ got # << >>
               /\ IsAnswerFrame(got[Len(got)])
               /\ \A i \in 1 .. Len(got) - 1 : ~IsErrorFrame(got[i])

\* C22: when the stream of a request has ended, what the client received
\* holds a complete answer (a structured_output or final event) or an
\* explicit error event: it is not empty and is not made of thinking and
\* token events only.
C22_StreamEndsWithAnswerOrError ==
    \A r \in RequestIds :
        requests[r].consumer = "done" =>
            \E i \in 1 .. Len(requests[r].received) :
                \/ IsAnswerFrame(requests[r].received[i])
                \/ IsErrorFrame(requests[r].received[i])

\* C22 witness: the streams of a token-by-token request and of an astream
\* request have ended after the producer failed, each with an error frame.
C22_Witness ==
    /\ requests["req1"].endpoint = "stream_token_by_token"
    /\ requests["req1"].consumer = "done"
    /\ requests["req1"].error = TypeErrorText("astream_tokens")
    /\ requests["req1"].received # << >>
    /\ requests["req2"].endpoint = "astream"
    /\ requests["req2"].consumer = "done"
    /\ requests["req2"].received # << >>

\* C23: with the thread of the request and the iteration of the generator
\* scheduled fairly, the generator of every request stops reading: it takes
\* the end-of-stream marker, or the client went away.
C23_CompletionIsSignalled ==
    \A r \in RequestIds :
        (requests[r].consumer = "reading")
            ~> (requests[r].consumer \in {"done", "closed"})

\* C23 witness: the generator of a request took the end-of-stream marker
\* that the thread of the request put after its call raised.
C23_Witness ==
    \E r \in RequestIds :
        /\ requests[r].consumer = "done"
        /\ requests[r].thread \in {"sentinel_put", "finished"}
        /\ requests[r].error # << >>
        /\ queues[requests[r].queue_id] = << >>

\* C24: every token-by-token request comes to a state where its thread has
\* ended, its loop is closed and its forwarder task, with the iterator of the
\* handler that it runs, is not pending.
C24_NoWorkOutlivesRequest ==
    \A r \in RequestIds :
        (requests[r].endpoint = "stream_token_by_token")
            ~> ( /\ requests[r].thread = "finished"
                 /\ requests[r].loop = "closed"
                 /\ requests[r].forwarder \in {"none", "done"} )

\* C25: two requests never have the same queue or the same handler, and
\* every chunk in the queue of a request and every frame its client received
\* was produced for that request.
C25_RequestsAreIsolated ==
    /\ \A a, b \in RequestIds :
          (a # b /\ requests[a].endpoint # "none"
                 /\ requests[b].endpoint # "none") =>
             /\ requests[a].queue_id # requests[b].queue_id
             /\ (requests[a].handler_id # "none") =>
                   (requests[a].handler_id # requests[b].handler_id)
    /\ \A r \in RequestIds :
          /\ \A i \in 1 .. Len(requests[r].received) :
                requests[r].received[i].origin = r
          /\ requests[r].endpoint # "none" =>
                \A i \in 1 .. Len(queues[requests[r].queue_id]) :
                    LET chunk == queues[requests[r].queue_id][i]
                    IN  chunk # EndOfStream => chunk.origin = r

\* C25 witness: the client of one request has received a frame while the
\* thread of the other request, with a handler of its own, has put its chunk
\* and has not ended.
C25_Witness ==
    /\ requests["req1"].received # << >>
    /\ requests["req1"].handler_id # "none"
    /\ requests["req2"].handler_id # "none"
    /\ requests["req2"].thread = "error_put"
    /\ queues[requests["req2"].queue_id] # << >>

\* the streaming methods of Workflow
StreamOps == {"stream", "astream", "astream_tokens"}

\* C26: the input that a streamed turn gives to the executor is the user's
\* question unmodified when the session has neither summary nor history; it
\* always ends with the question, and the history of the session, when there
\* is one, comes before the question.
C26_PromptComposedFromMemory ==
    last.op \in StreamOps =>
        LET u == last.arg
            p == last.ret.prompt
            prefix == SubSeq(p, 1, Len(p) - Len(u))
            history == LogOf(session_histories, current_session_id)
        IN  /\ Len(p) >= Len(u)
            /\ SubSeq(p, Len(p) - Len(u) + 1, Len(p)) = u
            /\ (history = << >>) => (p = u)
            /\ (history # << >>) =>
                  \E i \in 1 .. Len(prefix) :
                      prefix[i] = history[1].content[1]

\* C27: a streamed turn with user text u whose final answer is r appends
\* exactly the exchange (u, r) to the log of the session, through each of
\* stream, astream and astream_tokens.
C27_StreamedTurnAppendsExchange ==
    [][ last'.op \in StreamOps =>
          LogOf(session_histories', current_session_id)
            = LogOf(session_histories, current_session_id)
                \o <<HumanMessage(last'.arg), AIMessage(last'.ret.answer)>>
      ]_vars

\* the kinds of the StreamEvent union
EventTypes ==
    {"thinking", "token", "tool_separator", "tool_usage",
     "structured_output", "structured_update", "error", "final"}

\* C28: every event that a streaming path emits, a chunk yielded by stream
\* or astream, an event on the handler's queue or a chunk put on the queue
\* of a request, has a type that is one of the eight kinds.
C28_EventTypesAreKnown ==
    /\ last.op \in StreamOps =>
          \A i \in 1 .. Len(last.ret.events) :
              last.ret.events[i].chunk.type \in EventTypes
    /\ \A i \in 1 .. Len(queue) : queue[i].type \in EventTypes
    /\ \A r \in RequestIds : \A i \in 1 .. Len(queues[r]) :
          queues[r][i] # EndOfStream => queues[r][i].type \in EventTypes

\* C29: a turn that appends to a log counts one summarization, and records
\* its time, exactly when the log then holds more than twice
\* summarization_threshold messages; and with summarization_threshold = 2
\* neither of the first two turns answered on a session since it was created
\* or cleared counts a summarization.
C29_SummarizationCountedPastThreshold ==
    [][ ( /\ last'.op = "process_input"
          /\ last'.ret.path \in {"completed", "capped", "recovered"} ) =>
        LET target == SavedTo(last')
            n == Len(session_histories'[target])
        IN  /\ IF n > 2 * summarization_threshold
               THEN /\ memory_stats'.summarizations_count
                         = memory_stats.summarizations_count + 1
                    /\ memory_stats'.last_summarization = now'
               ELSE /\ memory_stats'.summarizations_count
                         = memory_stats.summarizations_count
                    /\ memory_stats'.last_summarization
                         = memory_stats.last_summarization
            /\ ( /\ summarization_threshold = 2
                 /\ last'.ret.path # "recovered"
                 /\ turns'[target] <= 2 )
               => memory_stats'.summarizations_count
                    = memory_stats.summarizations_count ]_vars

\* C30: update_summary returns the "no summary needed yet" text exactly when
\* the session holds at most summarization_threshold exchanges, that is when
\* its log is too short for the trigger of a save; otherwise it returns a
\* non-empty summary and counts one summarization; and it never changes a
\* log or total_messages.
C30_ManualSummaryUsesTriggerCondition ==
    [][ last'.op = "update_summary" =>
        LET log == LogOf(session_histories, Resolve(last'.sid))
        IN  /\ (last'.ret.value = NoSummaryNeeded)
                 <=> ~SummarizationTriggered(Len(log), summarization_threshold)
            /\ IF SummarizationTriggered(Len(log), summarization_threshold)
               THEN /\ last'.ret.value # << >>
                    /\ memory_stats'.summarizations_count
                         = memory_stats.summarizations_count + 1
               ELSE memory_stats'.summarizations_count
                         = memory_stats.summarizations_count
            /\ \A s \in SessionIds :
                  LogOf(session_histories', s) = LogOf(session_histories, s)
            /\ memory_stats'.total_messages = memory_stats.total_messages ]_vars


\* the text that the observations of a tool contribute to a synthesized
\* response: the text made of the last observation of the tool that is not
\* an error payload, << >> when the tool gave none.  kind is the tool as the
\* agent is built with it, name the name that process_input tests.
RECURSIVE PartOf(_, _, _)
PartOf(kind, name, steps) ==
    IF steps = << >> THEN << >>
    ELSE LET st == steps[Len(steps)]
         IN  IF st.tool \in {kind, name} /\ st.obs = "dict"
             THEN IF name = "CityFactsTool" THEN Collect(<<Step(name, "dict")>>,
                       [city_facts |-> << >>, weather_info |-> << >>,
                        time_info |-> << >>]).city_facts
                  ELSE IF name = "WeatherTool" THEN Collect(<<Step(name, "dict")>>,
                       [city_facts |-> << >>, weather_info |-> << >>,
                        time_info |-> << >>]).weather_info
                  ELSE Collect(<<Step(name, "dict")>>,
                       [city_facts |-> << >>, weather_info |-> << >>,
                        time_info |-> << >>]).time_info
             ELSE PartOf(kind, name, SubSeq(steps, 1, Len(steps) - 1))

\* the parts that are present, joined by blank lines
RECURSIVE JoinParts(_)
JoinParts(parts) ==
    IF parts = << >> THEN << >>
    ELSE IF Head(parts) = << >> THEN JoinParts(Tail(parts))
    ELSE LET rest == JoinParts(Tail(parts))
         IN  IF rest = << >> THEN Head(parts)
             ELSE Head(parts) \o <<"\n\n">> \o rest

\* C31: the response of a turn that ends at the iteration cap, when a tool
\* gave an observation that is not an error payload, is made of exactly the
\* parts that are present, facts summary, weather line, time line in that
\* order, with a blank line between two parts and nowhere else.
C31_CappedResponseJoinsPresentParts ==
    ( /\ last.op = "process_input"
      /\ last.ret.path = "capped" ) =>
        LET expected ==
              JoinParts(<<PartOf("city_facts", "CityFactsTool", last.ret.steps),
                          PartOf("weather", "WeatherTool", last.ret.steps),
                          PartOf("time", "TimeTool", last.ret.steps)>>)
        IN  expected # << >> => last.ret.response = expected


\* a text without the reasoning markers
WithoutMarkers(text) ==
    SelectSeq(text, LAMBDA p : p \notin {"<think>", "</think>"})

\* the events of the given types among those put by a step
PutOfType(put, types) == SelectSeq(put, LAMBDA e : e.type \in types)

\* C32: when a chunk that holds the end marker is processed, whether or not
\* it holds the start marker too, the section becomes the answer section, the
\* text before the end marker is put as thinking and the text after it as one
\* token event that follows; and no thinking or token event ever holds a
\* marker.
C32_EndMarkerSplitsChunk ==
    [][ \A token \in TokenInputs :
          (on_llm_new_token(token) /\ Has(token, "</think>")) =>
            LET k == FirstAt(token, "</think>", 1)
                before == WithoutMarkers(SubSeq(token, 1, k - 1))
                after == WithoutMarkers(SubSeq(token, k + 1, Len(token)))
                put == SubSeq(queue', Len(queue) + 1, Len(queue'))
            IN  /\ current_section' = "response"
                /\ PutOfType(put, {"thinking"})
                     = IF before = << >> THEN << >>
                       ELSE <<Event("thinking", escape_special_chars(before))>>
                /\ PutOfType(put, {"token"})
                     = IF after = << >> THEN << >>
                       ELSE <<Event("token", escape_special_chars(after))>>
                /\ \A i \in 1 .. Len(put) :
                      put[i].type \in {"thinking", "token"} =>
                         /\ ~Has(put[i].content, "<think>")
                         /\ ~Has(put[i].content, "</think>")
                /\ \A i, j \in 1 .. Len(put) :
                      (put[i].type = "token" /\ put[j].type = "thinking")
                         => j < i ]_vars


\* C33: a turn, whether it completes, is capped or is recovered, a read or a
\* clear made for a session leaves the log of every other session as it was.
C33_OtherSessionsUntouched ==
    [][ last'.op \in {"process_input", "get_conversation_summary",
                      "clear_memory"} =>
          \A b \in SessionIds :
              b # Resolve(last'.sid) =>
                  LogOf(session_histories', b) = LogOf(session_histories, b)
      ]_vars


\* one log is the beginning of another
IsPrefix(old, new) ==
    /\ Len(old) <= Len(new)
    /\ SubSeq(new, 1, Len(old)) = old

C36_SummaryImpliesCountedSummarization ==
    ( /\ last.op = "get_conversation_summary"
      /\ last.ret.value.stats.has_summary )
    => last.ret.value.stats.summarizations_count >= 1

\* the end-of-stream markers in a queue
SentinelsIn(q) == Len(SelectSeq(q, LAMBDA c : c = EndOfStream))

\* C37: the thread of a request puts exactly one end-of-stream marker on the
\* queue of the request and nothing after it: until the thread has put it,
\* the queue holds none and the generator has taken none; from then on the
\* marker is either the last item of the queue or was taken by the generator
\* from a queue that stays empty.
C37_OneSentinelPutLast ==
    \A r \in RequestIds :
        requests[r].endpoint # "none" =>
            LET q == queues[requests[r].queue_id]
                taken == IF requests[r].consumer = "done" THEN 1 ELSE 0
            IN  IF requests[r].thread \in {"sentinel_put", "finished"}
                THEN /\ SentinelsIn(q) + taken = 1
                     /\ SentinelsIn(q) = 1 => q[Len(q)] = EndOfStream
                     /\ taken = 1 => q = << >>
                ELSE SentinelsIn(q) + taken = 0

\* C37 witness: the thread of an astream request has ended and its queue
\* holds the error chunk and then the marker, while the generator of a
\* token-by-token request has taken the marker of its own queue.
C37_Witness ==
    /\ requests["req1"].endpoint = "astream"
    /\ requests["req1"].thread = "finished"
    /\ Len(queues[requests["req1"].queue_id]) = 2
    /\ requests["req2"].endpoint = "stream_token_by_token"
    /\ requests["req2"].thread = "finished"
    /\ requests["req2"].consumer = "done"


\* C38: when the turns of two threads on different sessions have both
\* completed, total_messages has grown by 4, however their steps interleaved.
C38_NoLostCounterUpdate ==
    ( /\ threads["t1"].pc = "done"
      /\ threads["t2"].pc = "done"
      /\ threads["t1"].sid # threads["t2"].sid )
    => memory_stats.total_messages = 4


\* the tool_separator events of the queue, in order
Separators == SelectSeq(queue, LAMBDA e : e.type = "tool_separator")

\* C39: after every tool-open separator a tool-close separator is put before
\* any thinking event and before a structured_output or error event, also
\* when the tool fails; and the separators alternate open, close, starting
\* with open.
C39_ToolOpenIsClosed ==
    /\ \A i, j \in 1 .. Len(queue) :
          ( /\ i < j
            /\ IsOpen(queue[i])
            /\ queue[j].type \in {"thinking", "structured_output", "error"} )
          => \E k \in (i + 1) .. (j - 1) : IsClose(queue[k])
    /\ \A n \in 1 .. Len(Separators) :
          IF n % 2 = 1 THEN IsOpen(Separators[n]) ELSE IsClose(Separators[n])

\* the executor of a turn ending with the error err
RaisedWith(err) ==
    [kind |-> "raise", output |-> << >>, steps |-> << >>, err |-> err]

\* C40: for every failure text, the handler puts the recovered
\* structured_output and token events exactly when process_input takes its
\* recovery path for the same text; the response that process_input returns
\* and the response carried by the two events are then the same non-empty
\* string, also when the recovered content is only a reasoning block.
C40_RecoveredResponseNeverEmpty ==
    [][ \A err \in StreamErrors :
          on_chain_error(err) =>
            LET ret == ProcessInputReturn(<<"q">>, RaisedWith(err))
                put == SubSeq(queue', Len(queue) + 1, Len(queue'))
                structured == PutOfType(put, {"structured_output"})
                tokens == PutOfType(put, {"token"})
            IN  /\ (ret.path = "recovered") <=> (structured # << >>)
                /\ (ret.path = "recovered") <=> (tokens # << >>)
                /\ ret.path = "recovered" =>
                     /\ ret.response # << >>
                     /\ Len(structured) = 1
                     /\ structured[1].content.response = ret.response
                     /\ tokens
                          = <<Event("token",
                                    escape_special_chars(ret.response))>>
                     /\ tokens[1].content # << >> ]_vars

\* a failure whose recovered content is only a reasoning block has been
\* handled: both sides answer with the fixed text
C40_Witness ==
    /\ Len(callbacks) > 0
    /\ callbacks[Len(callbacks)].name = "on_chain_error"
    /\ callbacks[Len(callbacks)].err.content = <<"<think>", "t", "</think>">>
    /\ response_buffer = ParseFallbackText
    /\ ProcessInputReturn(<<"q">>,
          RaisedWith(callbacks[Len(callbacks)].err)).response
          = ParseFallbackText
    /\ queue[Len(queue)]
         = Event("token", escape_special_chars(ParseFallbackText))

====
